---------------------------- MODULE Spec2Model ----------------------------
(***************************************************************************)
(* A model of src/main.py: textbook RSA (modular exponentiation,           *)
(* Miller-Rabin, prime generation, extended Euclid, key generation and     *)
(* character-wise encryption and decryption).                              *)
(*                                                                         *)
(* Pure functions of the source are operators that compute what the code   *)
(* computes; the functions that draw from the random source (is_prime,     *)
(* generate_prime, generate_rsa_keys) are state machines whose actions     *)
(* draw every value the random source can return.                          *)
(*                                                                         *)
(* Python integers are unbounded and TLC's are 32 bits wide, so every      *)
(* bound below keeps the intermediate values below 2^31, and TimesMod      *)
(* computes a product modulo m without forming the product when it would   *)
(* not fit.                                                                *)
(***************************************************************************)
EXTENDS Integers, Sequences, FiniteSets, TLC

VARIABLES
    pc,         \* the control location of the call under study
    args,       \* the arguments of the call under study
    ret,        \* its outcome: [err |-> "none", val |-> v] or [err |-> exception]
    mr_r,       \* is_prime: r of n - 1 = 2^r * d
    mr_d,       \* is_prime: d of n - 1 = 2^r * d
    mr_i,       \* is_prime: the rounds of the for loop completed
    mr_a,       \* is_prime: the witness a of the round in progress
    candidate,  \* generate_prime: the candidate of the latest iteration
    kg_p,       \* generate_rsa_keys: p
    kg_q,       \* generate_rsa_keys: q
    kg_n,       \* generate_rsa_keys: n
    kg_phi,     \* generate_rsa_keys: phi
    kg_e,       \* generate_rsa_keys: e
    kg_d,       \* generate_rsa_keys: d
    message,    \* the plaintext handed to encrypt_rsa (code points)
    encrypted,  \* the list encrypt_rsa returned
    decrypted   \* the string decrypt_rsa returned (code points)

vars == <<pc, args, ret, mr_r, mr_d, mr_i, mr_a, candidate, kg_p, kg_q, kg_n, kg_phi,
          kg_e, kg_d, message, encrypted, decrypted>>

mrVars == <<mr_r, mr_d, mr_i, mr_a>>
kgVars == <<candidate, kg_p, kg_q, kg_n, kg_phi, kg_e, kg_d>>
cipherVars == <<message, encrypted, decrypted>>

-----------------------------------------------------------------------------
(* Bounds of the model.                                                    *)

MaxBase == 4        \* modular_exponentiation: |base| <= MaxBase
MaxExp == 12        \* modular_exponentiation: exponent <= MaxExp
NegExp == 2         \* modular_exponentiation: exponent >= -NegExp
MaxMod == 9         \* modular_exponentiation: modulus <= MaxMod
NegMod == 3         \* modular_exponentiation: modulus >= -NegMod

-----------------------------------------------------------------------------
(* Outcomes of a call: a returned value or a raised exception.             *)

Pending == [err |-> "pending", val |-> 0]
Return(v) == [err |-> "none", val |-> v]
Raise(exc) == [err |-> exc, val |-> 0]

-----------------------------------------------------------------------------
(* Python's integer operators.                                             *)

\* x % m: the result has the sign of m (m # 0; m = 0 raises ZeroDivisionError,
\* which the callers test before they use PyMod).
PyMod(x, m) == IF m > 0 THEN x % m ELSE -((-x) % (-m))

Abs(x) == IF x < 0 THEN -x ELSE x

\* (x * y) % m for 0 <= x, y < m < 2^21, with no value of 2^31 or more:
\* y is read in base 1024 (three digits, the first 0 or 1) and the product
\* is built digit by digit, reduced at every step.
TimesModWide(x, y, m) ==
    LET hi == y \div 1048576
        mid == (y \div 1024) % 1024
        lo == y % 1024
        t1 == (x * hi) % m
        t2 == (((t1 * 1024) % m) + ((x * mid) % m)) % m
    IN  (((t2 * 1024) % m) + ((x * lo) % m)) % m

\* (x * y) % m. The product is formed when it fits 32 bits; otherwise (only
\* with 0 <= x, y < m < 2^21) it is built digit by digit.
TimesMod(x, y, m) ==
    IF Abs(x) < 46341 /\ Abs(y) < 46341
    THEN PyMod(x * y, m)
    ELSE TimesModWide(x, y, m)

-----------------------------------------------------------------------------
(* modular_exponentiation, src/main.py 6-20.                               *)

\* The while loop with a bug of the kind a port makes: the base is squared
\* before the multiplication that uses it.
RECURSIVE ModExpLoopSquareFirst(_, _, _, _)
ModExpLoopSquareFirst(result, base, exponent, modulus) ==
    IF exponent > 0
    THEN LET sq == TimesMod(base, base, modulus)
         IN  ModExpLoopSquareFirst(
                 IF exponent % 2 = 1 THEN TimesMod(result, sq, modulus) ELSE result,
                 sq, exponent \div 2, modulus)
    ELSE result

\* The while loop of lines 15-19: one unfolding is one iteration.
RECURSIVE ModExpLoop(_, _, _, _)
ModExpLoop(result, base, exponent, modulus) ==
    IF exponent > 0
    THEN ModExpLoop(
             IF exponent % 2 = 1 THEN TimesMod(result, base, modulus) ELSE result,
             TimesMod(base, base, modulus),
             exponent \div 2,
             modulus)
    ELSE result

\* Line 14 raises ZeroDivisionError when modulus = 0; nothing else is tested.
modular_exponentiation(base, exponent, modulus) ==
    IF modulus = 0
    THEN Raise("ZeroDivisionError")
    ELSE Return(ModExpLoop(1, PyMod(base, modulus), exponent, modulus))

\* The value modular_exponentiation returns, for the callers that pass a
\* modulus that is not 0.
ModExpVal(base, exponent, modulus) ==
    modular_exponentiation(base, exponent, modulus).val

-----------------------------------------------------------------------------
(* Initial values of the variables a specification does not use.           *)

IdleMR == mr_r = 0 /\ mr_d = 0 /\ mr_i = 0 /\ mr_a = 0
IdleKG ==
    /\ candidate = 0 /\ kg_p = 0 /\ kg_q = 0 /\ kg_n = 0
    /\ kg_phi = 0 /\ kg_e = 0 /\ kg_d = 0
IdleCipher == message = <<>> /\ encrypted = <<>> /\ decrypted = <<>>

-----------------------------------------------------------------------------
(* SpecModExp: one call of modular_exponentiation on any arguments within  *)
(* the bounds, the invalid ones (modulus <= 1, exponent < 0) included.     *)

InitModExp ==
    /\ pc = "call"
    /\ args \in [base : -MaxBase..MaxBase,
                 exponent : -NegExp..MaxExp,
                 modulus : -NegMod..MaxMod]
    /\ ret = Pending
    /\ IdleMR /\ IdleKG /\ IdleCipher

CallModExp ==
    /\ pc = "call"
    /\ ret' = modular_exponentiation(args.base, args.exponent, args.modulus)
    /\ pc' = "returned"
    /\ UNCHANGED <<args, mrVars, kgVars, cipherVars>>

NextModExp == CallModExp

SpecModExp == InitModExp /\ [][NextModExp]_vars

\* The reference power: base^exponent by repeated multiplication.
RECURSIVE RefPow(_, _)
RefPow(base, exponent) ==
    IF exponent = 0 THEN 1 ELSE base * RefPow(base, exponent - 1)

\* C1: for every base, every exponent >= 0 and every modulus > 1,
\* modular_exponentiation returns (base^exponent) mod modulus of the reference
\* power, a value in [0, modulus), and 1 when the exponent is 0.
C1_ModExpMatchesReference ==
    (pc = "returned" /\ args.exponent >= 0 /\ args.modulus > 1) =>
        /\ ret.err = "none"
        /\ ret.val = RefPow(args.base, args.exponent) % args.modulus
        /\ ret.val >= 0 /\ ret.val < args.modulus
        /\ (args.exponent = 0 => ret.val = 1)

\* C1's case: a negative base and an exponent of several bits.
C1_Witness ==
    /\ pc = "returned"
    /\ args = [base |-> -3, exponent |-> 11, modulus |-> 7]
    /\ ret.val = 2

\* C8: every call with modulus <= 1 ends in InvalidModulus and every call with
\* exponent < 0 ends in InvalidExponent.
C8_InvalidArgumentsRaise ==
    pc = "returned" =>
        /\ (args.modulus <= 1 => ret.err = "InvalidModulus")
        /\ (args.exponent < 0 /\ args.modulus > 1 => ret.err = "InvalidExponent")

-----------------------------------------------------------------------------
(* extended_gcd, src/main.py 90-102, and math.gcd.                         *)

MaxA == 12          \* extended_gcd: |a| <= MaxA
MaxB == 12          \* extended_gcd: 0 <= b <= MaxB

\* extended_gcd with a slip in line 101: x1 where the code has y1.
RECURSIVE extended_gcd_slip(_, _)
extended_gcd_slip(a, b) ==
    IF b = 0
    THEN <<a, 1, 0>>
    ELSE LET sub == extended_gcd_slip(b, a % b)
             x1 == sub[2]
             y1 == sub[3]
         IN  <<sub[1], y1, x1 - (a \div b) * x1>>

\* extended_gcd(a, b) for b >= 0: <<gcd_, x, y>>. With b > 0, Python's a % b
\* and a // b are TLA+'s a % b and a \div b (floor division).
RECURSIVE extended_gcd(_, _)
extended_gcd(a, b) ==
    IF b = 0
    THEN <<a, 1, 0>>
    ELSE LET sub == extended_gcd(b, a % b)
             x1 == sub[2]
             y1 == sub[3]
         IN  <<sub[1], y1, x1 - (a \div b) * y1>>

\* explain_extended_gcd(a, b): <<gcd_, x, y, steps>>, the steps being the
\* records the f-strings of lines 112 and 118 print, innermost call first.
RECURSIVE explain_extended_gcd(_, _)
explain_extended_gcd(a, b) ==
    IF b = 0
    THEN <<a, 1, 0, << <<"base", a, b, a>> >> >>
    ELSE LET sub == explain_extended_gcd(b, a % b)
             x1 == sub[2]
             y1 == sub[3]
             x == y1
             y == x1 - (a \div b) * y1
         IN  <<sub[1], x, y, Append(sub[4], <<"step", a, b, x, y>>)>>

\* math.gcd(a, b) for b >= 0 (line 2; the library's Euclid on magnitudes).
RECURSIVE gcd(_, _)
gcd(a, b) == IF b = 0 THEN Abs(a) ELSE gcd(b, a % b)

InitGcd ==
    /\ pc = "call"
    /\ args \in [a : -MaxA..MaxA, b : 0..MaxB]
    /\ ret = Pending
    /\ IdleMR /\ IdleKG /\ IdleCipher

CallExtendedGcd ==
    /\ pc = "call"
    /\ ret' = Return(extended_gcd(args.a, args.b))
    /\ pc' = "returned"
    /\ UNCHANGED <<args, mrVars, kgVars, cipherVars>>

NextGcd == CallExtendedGcd

SpecGcd == InitGcd /\ [][NextGcd]_vars

Divides(k, m) == m % k = 0

\* The reference gcd, from the definition: the greatest common divisor of the
\* magnitudes, and 0 for gcd(0, 0).
RefGcd(a, b) ==
    IF a = 0 /\ b = 0
    THEN 0
    ELSE LET top == IF Abs(a) > Abs(b) THEN Abs(a) ELSE Abs(b)
             common == {k \in 1..top : Divides(k, Abs(a)) /\ Divides(k, Abs(b))}
         IN  CHOOSE g \in common : \A k \in common : k <= g

-----------------------------------------------------------------------------
(* is_prime, src/main.py 42-74.                                            *)

MaxRounds == 6      \* is_prime: 1 <= k <= MaxRounds
MaxSmallN == 30     \* is_prime: every n in 0..MaxSmallN is tried

KnownPrimes == {2, 3, 5, 7, 97, 7919}
KnownComposites == {4, 9, 100, 561}

\* Lines 57-60: n - 1 = 2^r * d with d odd, as <<r, d>>.
RECURSIVE Decompose(_, _)
Decompose(r, dd) ==
    IF dd % 2 = 0 THEN Decompose(r + 1, dd \div 2) ELSE <<r, dd>>

\* Lines 68-73: the inner for loop over range(r - 1) with its else branch.
\* TRUE when the loop breaks (x reached n - 1), FALSE when it is exhausted.
RECURSIVE InnerLoop(_, _, _)
InnerLoop(x, left, nn) ==
    IF left <= 0
    THEN FALSE
    ELSE LET x2 == ModExpVal(x, 2, nn)
         IN  IF x2 = nn - 1 THEN TRUE ELSE InnerLoop(x2, left - 1, nn)

\* One round as a Fermat test would do it: a^(n-1) mod n = 1.
RoundPassesFermat(nn, r, dd, a) == ModExpVal(a, nn - 1, nn) = 1

\* Lines 65-73: whether the round with witness a passes (continue or break);
\* FALSE is the return False of line 73.
RoundPasses(nn, r, dd, a) ==
    LET x == ModExpVal(a, dd, nn)
    IN  IF x = 1 \/ x = nn - 1 THEN TRUE ELSE InnerLoop(x, r - 1, nn)

\* The values is_prime(nn, k) can return over all the witnesses
\* random.randint(2, nn - 2) can draw: the k rounds are independent draws.
IsPrimeOutcomes(nn, k) ==
    IF nn <= 1 THEN {FALSE}
    ELSE IF nn <= 3 THEN {TRUE}
    ELSE IF nn % 2 = 0 THEN {FALSE}
    ELSE LET rd == Decompose(0, nn - 1)
             passing == {a \in 2..(nn - 2) : RoundPasses(nn, rd[1], rd[2], a)}
         IN  {b \in BOOLEAN :
                \/ b /\ (k <= 0 \/ passing # {})
                \/ ~b /\ k >= 1 /\ passing # 2..(nn - 2)}

InitPrime ==
    /\ pc = "call"
    /\ args \in [n : KnownPrimes \cup KnownComposites \cup 0..MaxSmallN,
                 k : 1..MaxRounds]
    /\ ret = Pending
    /\ IdleMR /\ IdleKG /\ IdleCipher

\* Lines 49-60: the early returns, else the decomposition of n - 1.
IsPrimeEnter ==
    /\ pc = "call"
    /\ IF args.n <= 1
       THEN pc' = "returned" /\ ret' = Return(FALSE) /\ UNCHANGED mrVars
       ELSE IF args.n <= 3
       THEN pc' = "returned" /\ ret' = Return(TRUE) /\ UNCHANGED mrVars
       ELSE IF args.n % 2 = 0
       THEN pc' = "returned" /\ ret' = Return(FALSE) /\ UNCHANGED mrVars
       ELSE LET rd == Decompose(0, args.n - 1)
            IN  /\ mr_r' = rd[1]
                /\ mr_d' = rd[2]
                /\ mr_i' = 0
                /\ pc' = "loop"
                /\ UNCHANGED <<ret, mr_a>>
    /\ UNCHANGED <<args, kgVars, cipherVars>>

\* Lines 63-64: the next iteration of range(k) draws its witness.
IsPrimeDraw ==
    /\ pc = "loop"
    /\ mr_i < args.k
    /\ \E a \in 2..(args.n - 2) : mr_a' = a
    /\ pc' = "round"
    /\ UNCHANGED <<args, ret, mr_r, mr_d, mr_i, kgVars, cipherVars>>

\* Lines 65-73: the round on the witness drawn. a and x are written before
\* they are read in every iteration, so a passed round leaves nothing of them.
IsPrimeRound ==
    /\ pc = "round"
    /\ IF RoundPasses(args.n, mr_r, mr_d, mr_a)
       THEN /\ mr_i' = mr_i + 1
            /\ mr_a' = 0
            /\ pc' = "loop"
            /\ UNCHANGED ret
       ELSE /\ ret' = Return(FALSE)
            /\ pc' = "returned"
            /\ UNCHANGED <<mr_i, mr_a>>
    /\ UNCHANGED <<args, mr_r, mr_d, kgVars, cipherVars>>

\* Line 74: range(k) is exhausted.
IsPrimeReturnTrue ==
    /\ pc = "loop"
    /\ mr_i >= args.k
    /\ ret' = Return(TRUE)
    /\ pc' = "returned"
    /\ UNCHANGED <<args, mrVars, kgVars, cipherVars>>

NextPrime == IsPrimeEnter \/ IsPrimeDraw \/ IsPrimeRound \/ IsPrimeReturnTrue

SpecPrime == InitPrime /\ [][NextPrime]_vars

\* The witnesses in [2, 559] on which a round of is_prime(561) passes.
StrongLiars561 == {50, 101, 103, 256, 305, 458, 460, 511}

\* C6 as stated: with k >= 5, whatever witnesses are drawn, is_prime returns
\* true for 2, 3, 5, 7, 97, 7919 and false for 4, 9, 100, 561.
C6_AsStated ==
    (pc = "returned" /\ args.k >= 5) =>
        /\ (args.n \in KnownPrimes => ret.val = TRUE)
        /\ (args.n \in KnownComposites => ret.val = FALSE)

\* C6 as amended: with k >= 5, whatever witnesses are drawn, is_prime returns
\* true for 2, 3, 5, 7, 97, 7919 and false for 4, 9, 100; for 561 a round
\* returns false on every witness but the eight strong liars of 561, on which
\* it passes, and true is returned only after k passed rounds.
C6_Classification ==
    [][ /\ (pc' = "returned" /\ args.k >= 5 /\ args.n \in KnownPrimes
               => ret'.val = TRUE)
        /\ (pc' = "returned" /\ args.k >= 5 /\ args.n \in {4, 9, 100}
               => ret'.val = FALSE)
        /\ (pc = "round" /\ args.k >= 5 /\ args.n = 561
               => IF mr_a \in StrongLiars561
                  THEN pc' = "loop" /\ mr_i' = mr_i + 1
                  ELSE pc' = "returned" /\ ret'.val = FALSE)
        /\ (pc = "loop" /\ pc' = "returned" /\ args.k >= 5 /\ args.n = 561
               => ret'.val = TRUE /\ mr_i = args.k)
      ]_vars

\* C6's case: is_prime(561, 5) has returned false on a witness that a Fermat
\* test would have let pass (2^560 mod 561 = 1), after rounds on strong liars.
C6_Witness ==
    /\ pc = "returned"
    /\ args = [n |-> 561, k |-> 5]
    /\ mr_i = 4
    /\ mr_a = 2
    /\ ret.val = FALSE

-----------------------------------------------------------------------------
(* generate_prime, src/main.py 78-86, and generate_rsa_keys, 123-153.      *)

MaxBits == 12       \* generate_rsa_keys: 0 <= bits <= MaxBits
DefaultRounds == 5  \* is_prime's default k, which generate_prime uses

\* The widest argument generate_prime receives: bits // 2.
MaxHalf == MaxBits \div 2

\* is_prime(candidate) for every candidate random.getrandbits can return,
\* computed once: the values the call can return.
IsPrimeTable ==
    [c \in 0..(2^MaxHalf - 1) |-> IsPrimeOutcomes(c, DefaultRounds)]

\* Lines 145-147 left out: the coefficient of extended_gcd as it comes.
NormalizeOmitted(x, m) == x

\* Lines 145-147: d = d % phi, then d += phi if d < 0 (never taken: Python's
\* % with phi > 0 is not negative).
Normalize(x, m) ==
    LET r == PyMod(x, m)
    IN  IF r < 0 THEN r + m ELSE r

\* Lines 144-153 once e is chosen: the keys returned.
PrivateExponent(ee, m) == Normalize(explain_extended_gcd(ee, m)[2], m)

InitKeysWith(bitsChoices) ==
    /\ pc = "call"
    /\ args \in [bits : bitsChoices]
    /\ ret = Pending
    /\ IdleMR /\ IdleKG /\ IdleCipher

InitKeys == InitKeysWith(0..MaxBits)

\* Lines 131-132: generate_rsa_keys enters generate_prime(bits // 2) for p.
\* No argument is tested.
KeysEnter ==
    /\ pc = "call"
    /\ pc' = "gen_p"
    /\ UNCHANGED <<args, ret, mrVars, kgVars, cipherVars>>

\* One iteration of generate_prime(bits // 2) for p, lines 83-86:
\* random.getrandbits(k) returns any value of at most k bits (0 for k = 0),
\* and the candidate is returned when is_prime accepts it.
GeneratePrimeP ==
    /\ pc = "gen_p"
    /\ LET half == args.bits \div 2
       IN  \E c \in 0..(2^half - 1) : \E accepted \in IsPrimeTable[c] :
           /\ candidate' = c
           /\ IF accepted
              THEN kg_p' = c /\ pc' = "gen_q"
              ELSE UNCHANGED <<kg_p, pc>>
    /\ UNCHANGED <<args, ret, kg_q, kg_n, kg_phi, kg_e, kg_d, mrVars, cipherVars>>

\* One iteration of generate_prime(bits // 2) for q; when it returns,
\* lines 135-136 compute n and phi.
GeneratePrimeQ ==
    /\ pc = "gen_q"
    /\ LET half == args.bits \div 2
       IN  \E c \in 0..(2^half - 1) : \E accepted \in IsPrimeTable[c] :
           /\ candidate' = c
           /\ IF accepted
              THEN /\ kg_q' = c
                   /\ kg_n' = kg_p * c
                   /\ kg_phi' = (kg_p - 1) * (c - 1)
                   /\ pc' = "select_e"
              ELSE UNCHANGED <<kg_q, kg_n, kg_phi, pc>>
    /\ UNCHANGED <<args, ret, kg_p, kg_e, kg_d, mrVars, cipherVars>>

\* One iteration of the while loop of lines 139-142, and lines 144-153 when
\* it breaks. random.randint(2, phi - 1) raises ValueError on an empty range.
\* A rejected e is overwritten by the next draw before anything reads it,
\* so a rejected draw leaves the state as it was.
SelectE ==
    /\ pc = "select_e"
    /\ IF kg_phi - 1 < 2
       THEN /\ pc' = "raised"
            /\ ret' = Raise("ValueError")
            /\ UNCHANGED kgVars
       ELSE \E ee \in 2..(kg_phi - 1) :
            IF gcd(ee, kg_phi) = 1
            THEN /\ kg_e' = ee
                 /\ kg_d' = PrivateExponent(ee, kg_phi)
                 /\ ret' = Return(<< <<ee, kg_n>>, <<kg_d', kg_n>> >>)
                 /\ pc' = "returned"
                 /\ UNCHANGED <<candidate, kg_p, kg_q, kg_n, kg_phi>>
            ELSE UNCHANGED <<pc, ret, kgVars>>
    /\ UNCHANGED <<args, mrVars, cipherVars>>

NextKeys == KeysEnter \/ GeneratePrimeP \/ GeneratePrimeQ \/ SelectE

SpecKeys == InitKeys /\ [][NextKeys]_vars

\* C3: whenever generate_rsa_keys returns ((e, n), (d, n)), with n = p*q and
\* phi = (p-1)*(q-1), gcd(e, phi) = 1, 0 <= d < phi and (e*d) mod phi = 1;
\* for p = 61, q = 53, e = 17 the private exponent is 2753.
C3_PrivateExponentIsInverse ==
    pc = "returned" =>
        /\ ret.val = << <<kg_e, kg_n>>, <<kg_d, kg_n>> >>
        /\ kg_n = kg_p * kg_q
        /\ kg_phi = (kg_p - 1) * (kg_q - 1)
        /\ gcd(kg_e, kg_phi) = 1
        /\ 0 <= kg_d /\ kg_d < kg_phi
        /\ (kg_e * kg_d) % kg_phi = 1
        /\ (kg_p = 61 /\ kg_q = 53 /\ kg_e = 17 => kg_d = 2753)

\* C3's case: the textbook key, for which extended_gcd's coefficient is
\* negative (-367) and the normalisation acts.
C3_Witness ==
    /\ pc = "returned"
    /\ kg_p = 61 /\ kg_q = 53 /\ kg_e = 17
    /\ kg_n = 3233 /\ kg_phi = 3120
    /\ kg_d = 2753

\* C4: for bits > 1, a value generate_prime(bits) returns has exactly bits
\* significant bits, 2^(bits-1) <= value < 2^bits, and passes is_prime.
C4_PrimeHasExactWidth ==
    (pc = "gen_q" /\ args.bits \div 2 > 1) =>
        /\ 2^((args.bits \div 2) - 1) <= kg_p
        /\ kg_p < 2^(args.bits \div 2)
        /\ TRUE \in IsPrimeTable[kg_p]

\* C9: every call generate_rsa_keys(total_bits) with total_bits < 4 ends in
\* InvalidKeySize: it returns no keys and never enters the prime-sampling loop.
C9_SmallKeySizeRejected ==
    args.bits < 4 =>
        /\ pc \in {"call", "raised"}
        /\ (pc = "raised" => ret.err = "InvalidKeySize")

\* C10: for total_bits >= 4 and any p, q generate_prime(total_bits // 2) can
\* return, the selection of e reaches no error and can terminate: [2, phi-1]
\* is not empty and holds an e with gcd(e, phi) = 1.
C10_ExponentSelectionCanTerminate ==
    args.bits >= 4 =>
        /\ pc # "raised"
        /\ (pc = "select_e" =>
                /\ 2 <= kg_phi - 1
                /\ \E ee \in 2..(kg_phi - 1) : gcd(ee, kg_phi) = 1)

-----------------------------------------------------------------------------
(* encrypt_rsa, src/main.py 157-166, and decrypt_rsa, 170-186. A string is *)
(* the sequence of its code points: ord and chr are the two directions of  *)
(* that reading, and chr raises ValueError outside [0, 0x10FFFF].          *)

MaxCodePoint == 1114111     \* line 182: the valid Unicode range
Placeholder == 63           \* line 185: ord("?")

MaxLen == 2         \* messages and ciphertexts of at most MaxLen elements
MaxChar == 9        \* round trip: code points 0..MaxChar
MaxMsgBits == 6     \* round trip: keys of 4..MaxMsgBits bits
MaxD == 3           \* decrypt_rsa: private exponents 0..MaxD
MaxSmallMod == 6    \* decrypt_rsa: moduli 2..MaxSmallMod, and those of BigModuli
MaxCipher == 4      \* decrypt_rsa: elements 0..MaxCipher, and those of BigElements

SeqsUpTo(S, len) == UNION {[1..k -> S] : k \in 0..len}

\* chr(v)
Chr(v) ==
    IF 0 <= v /\ v <= MaxCodePoint THEN Return(v) ELSE Raise("ValueError")

\* Line 165: one modular exponentiation per character, in order. The modulus
\* is used only when there is a character.
encrypt_rsa(msg, public_key) ==
    LET ee == public_key[1]
        nn == public_key[2]
    IN  IF msg = <<>> THEN Return(<<>>)
        ELSE IF nn = 0 THEN Raise("ZeroDivisionError")
        ELSE Return([i \in 1..Len(msg) |-> ModExpVal(msg[i], ee, nn)])

\* Lines 182-185 with the range test one too wide.
DecryptedCharWide(v) ==
    IF 0 <= v /\ v <= MaxCodePoint + 1 THEN Chr(v) ELSE Return(Placeholder)

\* Lines 182-185: the character of a decrypted value, or the placeholder.
DecryptedChar(v) ==
    IF 0 <= v /\ v <= MaxCodePoint THEN Chr(v) ELSE Return(Placeholder)

\* Lines 178-186: one character per element, in order, joined.
decrypt_rsa(ciphertext, private_key) ==
    LET dd == private_key[1]
        nn == private_key[2]
    IN  IF ciphertext = <<>> THEN Return(<<>>)
        ELSE IF nn = 0 THEN Raise("ZeroDivisionError")
        ELSE LET chars == [i \in 1..Len(ciphertext) |->
                              DecryptedChar(ModExpVal(ciphertext[i], dd, nn))]
             IN  IF \E i \in 1..Len(ciphertext) : chars[i].err # "none"
                 THEN Raise("ValueError")
                 ELSE Return([i \in 1..Len(ciphertext) |-> chars[i].val])

-----------------------------------------------------------------------------
(* SpecRoundTrip: rsa_menu's options 1, 2 and 3 in turn (lines 205-226):   *)
(* keys are generated, a message is encrypted with the public key, and the *)
(* list printed is decrypted with the private key.                         *)

InitRoundTrip == InitKeysWith(4..MaxMsgBits)

\* Lines 211-217, with the keys of option 1.
Encrypt ==
    /\ pc = "returned"
    /\ \E msg \in SeqsUpTo(0..MaxChar, MaxLen) :
          /\ message' = msg
          /\ encrypted' = encrypt_rsa(msg, ret.val[1]).val
    /\ pc' = "encrypted"
    /\ UNCHANGED <<args, ret, mrVars, kgVars, decrypted>>

\* Lines 219-226, on the list option 2 printed.
Decrypt ==
    /\ pc = "encrypted"
    /\ decrypted' = decrypt_rsa(encrypted, ret.val[2]).val
    /\ pc' = "decrypted"
    /\ UNCHANGED <<args, ret, mrVars, kgVars, message, encrypted>>

NextRoundTrip == NextKeys \/ Encrypt \/ Decrypt

SpecRoundTrip == InitRoundTrip /\ [][NextRoundTrip]_vars

\* C2: for every key pair generate_rsa_keys can return and every message whose
\* code points are all < n, decrypt_rsa(encrypt_rsa(message, pk), sk) is the
\* message.
C2_RoundTrip ==
    (pc = "decrypted" /\ \A i \in 1..Len(message) : message[i] < kg_n) =>
        decrypted = message

-----------------------------------------------------------------------------
(* SpecDecrypt: one call of decrypt_rsa on any private key (d, n) with     *)
(* n > 1 and any list of non-negative integers, within the bounds.         *)

\* Moduli above the Unicode range, so that a decrypted value can exceed it.
BigModuli == {MaxCodePoint + 2, MaxCodePoint + 3}
\* Elements at the edge of the Unicode range: 0x10FFFF and 0x110000.
BigElements == {MaxCodePoint, MaxCodePoint + 1}

InitDecrypt ==
    /\ pc = "call"
    /\ args \in [ciphertext : SeqsUpTo(0..MaxCipher \cup BigElements, MaxLen),
                 private_key : (0..MaxD) \X (2..MaxSmallMod \cup BigModuli)]
    /\ ret = Pending
    /\ IdleMR /\ IdleKG /\ IdleCipher

CallDecrypt ==
    /\ pc = "call"
    /\ ret' = decrypt_rsa(args.ciphertext, args.private_key)
    /\ pc' = "returned"
    /\ UNCHANGED <<args, mrVars, kgVars, cipherVars>>

NextDecrypt == CallDecrypt

SpecDecrypt == InitDecrypt /\ [][NextDecrypt]_vars

\* The reference c^dd mod nn: dd multiplications, each reduced.
RECURSIVE RefPowMod(_, _, _)
RefPowMod(c, dd, nn) ==
    IF dd = 0 THEN 1 % nn
    ELSE TimesModWide(RefPowMod(c, dd - 1, nn), c % nn, nn)

\* C7: for every private key (d, n) with n > 1 and every list of non-negative
\* integers, decrypt_rsa raises nothing and returns one character per
\* element, in order: the character of v = c^d mod n when v <= 0x10FFFF, and
\* "?" otherwise, whatever the other elements are.
C7_DecryptNeverFails ==
    pc = "returned" =>
        /\ ret.err = "none"
        /\ Len(ret.val) = Len(args.ciphertext)
        /\ \A i \in 1..Len(args.ciphertext) :
              LET v == RefPowMod(args.ciphertext[i],
                                 args.private_key[1], args.private_key[2])
              IN  ret.val[i] = IF v <= MaxCodePoint THEN v ELSE Placeholder

\* C7's case: an element that decrypts to 0x110000 beside one that decrypts
\* to a character.
C7_Witness ==
    /\ pc = "returned"
    /\ args.ciphertext = <<MaxCodePoint + 1, 4>>
    /\ args.private_key = <<1, MaxCodePoint + 2>>
    /\ ret.val = <<Placeholder, 4>>

=============================================================================
